---- MODULE Spec2Model ----
(***************************************************************************)
(* Model of forex_scanner.py: the response parser (ExchangeRate.from_api), *)
(* the rate provider (fetch_exchange_rate) and the retry orchestrator      *)
(* (run_scanner) as called from main.                                      *)
(*                                                                         *)
(* Python strings that the code inspects character by character (numeric   *)
(* fields) are sequences of one-character strings; dictionary keys and     *)
(* exception class names, which the code only compares, are TLA+ strings.  *)
(***************************************************************************)
EXTENDS Integers, Sequences, FiniteSets, TLC

(***************************************************************************)
(* Python values                                                           *)
(***************************************************************************)

\* A Python float: finite values are (-1)^neg * mant / 10^exp, normalised so
\* that equal numbers are equal records; nan and inf are kept apart.
Float(k, neg, mant, exp) == [k |-> k, neg |-> neg, mant |-> mant, exp |-> exp]

\* Python None where an Optional[float] is expected.
None == Float("None", FALSE, 0, 0)

Digits == {"0", "1", "2", "3", "4", "5", "6", "7", "8", "9"}

DigitVal(c) ==
    CASE c = "0" -> 0 [] c = "1" -> 1 [] c = "2" -> 2 [] c = "3" -> 3
      [] c = "4" -> 4 [] c = "5" -> 5 [] c = "6" -> 6 [] c = "7" -> 7
      [] c = "8" -> 8 [] c = "9" -> 9

\* str.strip() on the whitespace the inputs contain
RECURSIVE LStrip(_)
LStrip(s) == IF s # <<>> /\ Head(s) = " " THEN LStrip(Tail(s)) ELSE s

RECURSIVE RStrip(_)
RStrip(s) ==
    IF s # <<>> /\ s[Len(s)] = " " THEN RStrip(SubSeq(s, 1, Len(s) - 1)) ELSE s

Strip(s) == RStrip(LStrip(s))

RECURSIVE DigitsVal(_)
DigitsVal(s) ==
    IF s = <<>> THEN 0
    ELSE DigitsVal(SubSeq(s, 1, Len(s) - 1)) * 10 + DigitVal(s[Len(s)])

\* drop trailing zeros of the fraction: 1.50 and 1.5 are the same float
RECURSIVE Normalise(_, _, _)
Normalise(neg, mant, exp) ==
    IF exp > 0 /\ mant % 10 = 0 THEN Normalise(neg, mant \div 10, exp - 1)
    ELSE Float("fin", neg, mant, exp)

\* the result of a call that may raise: exc = "" when it returned val
Returned(val) == [exc |-> "", val |-> val]
Raised(exc)   == [exc |-> exc, val |-> None]

\* float(s) for a str s: surrounding whitespace is stripped, then an optional
\* sign, then "nan", "inf", or decimal digits with at most one point and at
\* least one digit; anything else raises ValueError.  (Exponents, underscores
\* and upper-case spellings are accepted by Python too; no input of the model
\* uses them.)
float(s) ==
    LET t    == Strip(s)
        sgn  == t # <<>> /\ Head(t) \in {"+", "-"}
        neg  == t # <<>> /\ Head(t) = "-"
        u    == IF sgn THEN Tail(t) ELSE t
        dots == {i \in 1..Len(u) : u[i] = "."}
        dot  == IF dots = {} THEN Len(u) + 1 ELSE CHOOSE i \in dots : TRUE
        ip   == SubSeq(u, 1, dot - 1)
        fp   == SubSeq(u, dot + 1, Len(u))
    IN  IF u = <<"n", "a", "n">> THEN Returned(Float("nan", FALSE, 0, 0))
        ELSE IF u = <<"i", "n", "f">> THEN Returned(Float("inf", neg, 0, 0))
        ELSE IF /\ Cardinality(dots) <= 1
                /\ Len(ip) + Len(fp) >= 1
                /\ \A i \in 1..Len(ip) : ip[i] \in Digits
                /\ \A i \in 1..Len(fp) : fp[i] \in Digits
             THEN Returned(Normalise(neg, DigitsVal(ip \o fp), Len(fp)))
        ELSE Raised("ValueError")

(***************************************************************************)
(* ExchangeRate and the outcome of a call                                  *)
(***************************************************************************)

\* the provider's labels of the fields of one quote
K_FROM == "1. From_Currency Code"
K_TO   == "3. To_Currency Code"
K_RATE == "5. Exchange Rate"
K_LAST == "6. Last Refreshed"
K_BID  == "8. Bid Price"
K_ASK  == "9. Ask Price"

FieldKeys == {K_FROM, K_TO, K_RATE, K_LAST, K_BID, K_ASK}

\* the dataclass
ExchangeRate(from_currency, to_currency, rate, last_refreshed, bid_price, ask_price) ==
    [from_currency |-> from_currency, to_currency |-> to_currency, rate |-> rate,
     last_refreshed |-> last_refreshed, bid_price |-> bid_price,
     ask_price |-> ask_price]

\* placeholder for "no ExchangeRate" in an outcome that raised
NoRate == ExchangeRate(<<>>, <<>>, None, <<>>, None, None)

\* An outcome of from_api / fetch_exchange_rate / run_scanner: exc is the class
\* of the exception raised ("" when the call returned val).  For an exception
\* the remaining fields are what its message is formatted from: msg the fixed
\* text of the f-string, pair the {base}/{quote} it interpolates (<<>> when it
\* interpolates none), cause the class of the chained exception, key the
\* dictionary key of a KeyError, text the interpolated provider text.
Ok(val) ==
    [exc |-> "", msg |-> "", pair |-> <<>>, cause |-> "", key |-> "",
     text |-> <<>>, val |-> val]

Exc(exc, msg, pair, cause, key, text) ==
    [exc |-> exc, msg |-> msg, pair |-> pair, cause |-> cause, key |-> key,
     text |-> text, val |-> NoRate]

ForexScannerError(msg, pair, cause, key, text) ==
    Exc("ForexScannerError", msg, pair, cause, key, text)

\* an exception the code does not wrap: it leaves with its own class
RawError(exc) == Exc(exc, "", <<>>, "", "", <<>>)

MSG_MISSING_FIELD == "Response missing field"
MSG_INVALID_NUM   == "Invalid numeric value in response"
MSG_NETWORK       == "Network error while fetching"
MSG_API_ERROR     == "API error for"
MSG_API_LIMIT     == "API limit reached"
MSG_UNEXPECTED    == "Unexpected response structure for"
MSG_MISSING_KEY   == "Missing API key"

(***************************************************************************)
(* ExchangeRate.from_api                                                   *)
(***************************************************************************)

\* A decoded JSON value handed to from_api: isdict says whether it is an
\* object; items maps the keys it has to their (string) values.
Dict(items) == [isdict |-> TRUE, items |-> items]
NonDict     == [isdict |-> FALSE, items |-> <<>>]

Has(payload, key) == key \in DOMAIN payload.items

\* an Optional[str]: Python None, or the str s
NoneStr == [isnone |-> TRUE, s |-> <<>>]
Str(s)  == [isnone |-> FALSE, s |-> s]

\* payload.get(key)
Get(payload, key) == IF Has(payload, key) THEN Str(payload.items[key]) ELSE NoneStr

_parse_optional_float(value) ==
    IF value.isnone \/ value.s = <<>> THEN None
    ELSE IF float(value.s).exc = "ValueError" THEN None
    ELSE float(value.s).val

\* from_api with last_refreshed read by payload.get(..., "")
from_api_LenientLast(payload) ==
    IF ~payload.isdict THEN RawError("TypeError")
    ELSE IF ~Has(payload, K_FROM)
        THEN ForexScannerError(MSG_MISSING_FIELD, <<>>, "KeyError", K_FROM, <<>>)
    ELSE IF ~Has(payload, K_TO)
        THEN ForexScannerError(MSG_MISSING_FIELD, <<>>, "KeyError", K_TO, <<>>)
    ELSE IF ~Has(payload, K_RATE)
        THEN ForexScannerError(MSG_MISSING_FIELD, <<>>, "KeyError", K_RATE, <<>>)
    ELSE IF float(payload.items[K_RATE]).exc = "ValueError"
        THEN ForexScannerError(MSG_INVALID_NUM, <<>>, "ValueError", "",
                               payload.items[K_RATE])
    ELSE Ok(ExchangeRate(payload.items[K_FROM], payload.items[K_TO],
                         float(payload.items[K_RATE]).val,
                         IF Has(payload, K_LAST) THEN payload.items[K_LAST] ELSE <<>>,
                         _parse_optional_float(Get(payload, K_BID)),
                         _parse_optional_float(Get(payload, K_ASK))))

\* from_api with the bid and the ask parsed by float(), like the rate
from_api_StrictOptional(payload) ==
    IF ~payload.isdict THEN RawError("TypeError")
    ELSE IF ~Has(payload, K_FROM)
        THEN ForexScannerError(MSG_MISSING_FIELD, <<>>, "KeyError", K_FROM, <<>>)
    ELSE IF ~Has(payload, K_TO)
        THEN ForexScannerError(MSG_MISSING_FIELD, <<>>, "KeyError", K_TO, <<>>)
    ELSE IF ~Has(payload, K_RATE)
        THEN ForexScannerError(MSG_MISSING_FIELD, <<>>, "KeyError", K_RATE, <<>>)
    ELSE IF float(payload.items[K_RATE]).exc = "ValueError"
        THEN ForexScannerError(MSG_INVALID_NUM, <<>>, "ValueError", "",
                               payload.items[K_RATE])
    ELSE IF ~Has(payload, K_LAST)
        THEN ForexScannerError(MSG_MISSING_FIELD, <<>>, "KeyError", K_LAST, <<>>)
    ELSE IF Has(payload, K_BID) /\ float(payload.items[K_BID]).exc = "ValueError"
        THEN ForexScannerError(MSG_INVALID_NUM, <<>>, "ValueError", "",
                               payload.items[K_BID])
    ELSE IF Has(payload, K_ASK) /\ float(payload.items[K_ASK]).exc = "ValueError"
        THEN ForexScannerError(MSG_INVALID_NUM, <<>>, "ValueError", "",
                               payload.items[K_ASK])
    ELSE Ok(ExchangeRate(payload.items[K_FROM], payload.items[K_TO],
                         float(payload.items[K_RATE]).val, payload.items[K_LAST],
                         _parse_optional_float(Get(payload, K_BID)),
                         _parse_optional_float(Get(payload, K_ASK))))

\* The statements of the try block run in order; the first one that raises
\* decides the exception.  Subscripting a value that is not a dict raises
\* TypeError, which neither except clause catches.
from_api(payload) ==
    IF ~payload.isdict THEN RawError("TypeError")
    ELSE IF ~Has(payload, K_FROM)
        THEN ForexScannerError(MSG_MISSING_FIELD, <<>>, "KeyError", K_FROM, <<>>)
    ELSE IF ~Has(payload, K_TO)
        THEN ForexScannerError(MSG_MISSING_FIELD, <<>>, "KeyError", K_TO, <<>>)
    ELSE IF ~Has(payload, K_RATE)
        THEN ForexScannerError(MSG_MISSING_FIELD, <<>>, "KeyError", K_RATE, <<>>)
    ELSE IF float(payload.items[K_RATE]).exc = "ValueError"
        THEN ForexScannerError(MSG_INVALID_NUM, <<>>, "ValueError", "",
                               payload.items[K_RATE])
    ELSE IF ~Has(payload, K_LAST)
        THEN ForexScannerError(MSG_MISSING_FIELD, <<>>, "KeyError", K_LAST, <<>>)
    ELSE Ok(ExchangeRate(payload.items[K_FROM], payload.items[K_TO],
                         float(payload.items[K_RATE]).val, payload.items[K_LAST],
                         _parse_optional_float(Get(payload, K_BID)),
                         _parse_optional_float(Get(payload, K_ASK))))

(***************************************************************************)
(* fetch_exchange_rate                                                     *)
(***************************************************************************)

ERROR_MESSAGE == "Error Message"
NOTE          == "Note"
data_key      == "Realtime Currency Exchange Rate"

TopKeys == {ERROR_MESSAGE, NOTE, data_key}

\* What the provider does with one request.
\*   transport_ok  requests.get returned a response (else it raised a
\*                 RequestException: connection failure, timeout)
\*   status_ok     raise_for_status() did not raise HTTPError
\*   body          what response.json() finds:
\*     type   "notjson" (json() raises), "scalar" (a JSON number, boolean or
\*            null), "list", "string" or "object"
\*     has    the keys k for which `k in payload` is true: the keys of an
\*            object, the elements of a list, the substrings of a string
\*     error_message, note, data   payload[k] of an object for the three keys
Body(type, has, error_message, note, data) ==
    [type |-> type, has |-> has, error_message |-> error_message, note |-> note,
     data |-> data]

Response(transport_ok, status_ok, body) ==
    [transport_ok |-> transport_ok, status_ok |-> status_ok, body |-> body]

\* lines 105-111: one try block around the request and raise_for_status, one
\* message for both; the chained exception tells them apart
SendRequest(base, quote, response) ==
    IF ~response.transport_ok
        THEN ForexScannerError(MSG_NETWORK, <<base, quote>>, "ConnectionError", "", <<>>)
    ELSE IF ~response.status_ok
        THEN ForexScannerError(MSG_NETWORK, <<base, quote>>, "HTTPError", "", <<>>)
    ELSE Ok(NoRate)

\* ClassifyPayload with the notice tested before the error message
ClassifyPayload_NoteFirst(base, quote, payload) ==
    IF payload.type = "notjson" THEN RawError("JSONDecodeError")
    ELSE IF payload.type = "scalar" THEN RawError("TypeError")
    ELSE IF NOTE \in payload.has
        THEN IF payload.type = "object"
             THEN ForexScannerError(MSG_API_LIMIT, <<base, quote>>, "", "",
                                    payload.note)
             ELSE RawError("TypeError")
    ELSE IF ERROR_MESSAGE \in payload.has
        THEN IF payload.type = "object"
             THEN ForexScannerError(MSG_API_ERROR, <<base, quote>>, "", "",
                                    payload.error_message)
             ELSE RawError("TypeError")
    ELSE IF data_key \notin payload.has
        THEN ForexScannerError(MSG_UNEXPECTED, <<base, quote>>, "", "", <<>>)
    ELSE IF payload.type = "object" THEN from_api(payload.data)
    ELSE RawError("TypeError")

\* ClassifyPayload reporting a notice with the message of a provider error
ClassifyPayload_SameMessage(base, quote, payload) ==
    IF payload.type = "notjson" THEN RawError("JSONDecodeError")
    ELSE IF payload.type = "scalar" THEN RawError("TypeError")
    ELSE IF ERROR_MESSAGE \in payload.has
        THEN IF payload.type = "object"
             THEN ForexScannerError(MSG_API_ERROR, <<base, quote>>, "", "",
                                    payload.error_message)
             ELSE RawError("TypeError")
    ELSE IF NOTE \in payload.has
        THEN IF payload.type = "object"
             THEN ForexScannerError(MSG_API_ERROR, <<base, quote>>, "", "",
                                    payload.note)
             ELSE RawError("TypeError")
    ELSE IF data_key \notin payload.has
        THEN ForexScannerError(MSG_UNEXPECTED, <<base, quote>>, "", "", <<>>)
    ELSE IF payload.type = "object" THEN from_api(payload.data)
    ELSE RawError("TypeError")

\* lines 113-127 on the decoded payload.  `k in payload` raises TypeError on
\* a scalar; payload[k] raises TypeError on a list or a string.  The text of
\* the unexpected-structure message is json.dumps(payload), not modelled.
ClassifyPayload(base, quote, payload) ==
    IF payload.type = "notjson" THEN RawError("JSONDecodeError")
    ELSE IF payload.type = "scalar" THEN RawError("TypeError")
    ELSE IF ERROR_MESSAGE \in payload.has
        THEN IF payload.type = "object"
             THEN ForexScannerError(MSG_API_ERROR, <<base, quote>>, "", "",
                                    payload.error_message)
             ELSE RawError("TypeError")
    ELSE IF NOTE \in payload.has
        THEN IF payload.type = "object"
             THEN ForexScannerError(MSG_API_LIMIT, <<base, quote>>, "", "",
                                    payload.note)
             ELSE RawError("TypeError")
    ELSE IF data_key \notin payload.has
        THEN ForexScannerError(MSG_UNEXPECTED, <<base, quote>>, "", "", <<>>)
    ELSE IF payload.type = "object" THEN from_api(payload.data)
    ELSE RawError("TypeError")

\* fetch_exchange_rate(api_key, base, quote) when the provider answers the
\* request with `response`
fetch_exchange_rate(api_key, base, quote, response) ==
    IF SendRequest(base, quote, response).exc # ""
        THEN SendRequest(base, quote, response)
    ELSE ClassifyPayload(base, quote, response.body)

(***************************************************************************)
(* parse_pairs                                                             *)
(***************************************************************************)

MSG_INVALID_FORMAT == "Invalid pair: use the format BASE/QUOTE"
MSG_INVALID_SIDES  == "Invalid pair: both base and quote currencies are required"

\* str.replace("-", "/")
Replace(s) == [i \in 1..Len(s) |-> IF s[i] = "-" THEN "/" ELSE s[i]]

LowerLetters ==
    <<"a", "b", "c", "d", "e", "f", "g", "h", "i", "j", "k", "l", "m",
      "n", "o", "p", "q", "r", "s", "t", "u", "v", "w", "x", "y", "z">>

UpperLetters ==
    <<"A", "B", "C", "D", "E", "F", "G", "H", "I", "J", "K", "L", "M",
      "N", "O", "P", "Q", "R", "S", "T", "U", "V", "W", "X", "Y", "Z">>

\* str.upper() on one ASCII character
UpperChar(c) ==
    IF \E i \in 1..Len(LowerLetters) : LowerLetters[i] = c
    THEN UpperLetters[CHOOSE i \in 1..Len(LowerLetters) : LowerLetters[i] = c]
    ELSE c

Upper(s) == [i \in 1..Len(s) |-> UpperChar(s[i])]

\* line 82 without .upper()
Cleaned_KeepCase(raw) == Strip(Replace(raw))

\* line 82
Cleaned(raw) == Upper(Strip(Replace(raw)))

\* cleaned.split("/", 1) for a cleaned that contains "/"
SplitFirst(cleaned) ==
    LET at == CHOOSE i \in 1..Len(cleaned) :
                  cleaned[i] = "/" /\ \A j \in 1..(i - 1) : cleaned[j] # "/"
    IN  <<SubSeq(cleaned, 1, at - 1), SubSeq(cleaned, at + 1, Len(cleaned))>>

\* the body of the loop without the check of line 88
ParsePair_AllowEmpty(raw) ==
    LET cleaned == Cleaned(raw)
    IN  IF \A i \in 1..Len(cleaned) : cleaned[i] # "/"
            THEN ForexScannerError(MSG_INVALID_FORMAT, <<>>, "", "", raw)
        ELSE Ok(SplitFirst(cleaned))

\* the body of the loop (lines 82-92) for one raw string: the pair, or the error
ParsePair(raw) ==
    LET cleaned == Cleaned(raw)
    IN  IF \A i \in 1..Len(cleaned) : cleaned[i] # "/"
            THEN ForexScannerError(MSG_INVALID_FORMAT, <<>>, "", "", raw)
        ELSE IF SplitFirst(cleaned)[1] = <<>> \/ SplitFirst(cleaned)[2] = <<>>
            THEN ForexScannerError(MSG_INVALID_SIDES, <<>>, "", "", raw)
        ELSE Ok(SplitFirst(cleaned))

\* parse_pairs leaving out the raw strings that are rejected
RECURSIVE parse_pairs_SkipInvalid(_)
parse_pairs_SkipInvalid(raws) ==
    IF raws = <<>> THEN Ok(<<>>)
    ELSE LET rest == parse_pairs_SkipInvalid(SubSeq(raws, 1, Len(raws) - 1))
             last == ParsePair(raws[Len(raws)])
         IN  IF last.exc # "" THEN rest ELSE Ok(Append(rest.val, last.val))

\* the loop: the first raw string that is rejected raises, and nothing is
\* returned; otherwise val is the list of pairs, in order
RECURSIVE parse_pairs(_)
parse_pairs(raws) ==
    IF raws = <<>> THEN Ok(<<>>)
    ELSE LET rest == parse_pairs(SubSeq(raws, 1, Len(raws) - 1))
             last == ParsePair(raws[Len(raws)])
         IN  IF rest.exc # "" THEN rest
             ELSE IF last.exc # "" THEN last
             ELSE Ok(Append(rest.val, last.val))

(***************************************************************************)
(* run_scanner, as main calls it                                           *)
(***************************************************************************)

\* bounds of the model
MaxPairs == 3
MaxRetry == 2

\* max(0.5, args.retry_delay): delays are counted in tenths of a second
MIN_RETRY_DELAY == 5

EUR == <<"E", "U", "R">>
USD == <<"U", "S", "D">>
XAU == <<"X", "A", "U">>

\* the normalized pairs a batch is made of
AllPairs == {<<EUR, USD>>, <<XAU, USD>>}

PairLists == UNION {[1..n -> AllPairs] : n \in 0..MaxPairs}

KEY == <<"k", "e", "y">>

\* args.api_key and os.getenv(ENV_API_KEY): absent, empty or set
ApiKeys == {NoneStr, Str(<<>>), Str(KEY)}

ArgsRetry      == -1..MaxRetry
ArgsRetryDelay == {-10, 20}

\* raw --pairs strings: two well-formed ones and one without a separator
RAW_EUR_USD == <<"E", "U", "R", "/", "U", "S", "D">>
RAW_XAU_USD == <<"x", "a", "u", "-", "u", "s", "d">>
RAW_EURUSD  == <<"E", "U", "R", "U", "S", "D">>
RAW_USD_JPY == <<"u", "s", "d", "/", "j", "p", "y">>

RawPairs == {RAW_EUR_USD, RAW_XAU_USD, RAW_EURUSD}

\* args.pairs of a live run, and of a demo run (one more pair of the table)
RawLists     == UNION {[1..n -> RawPairs] : n \in 0..MaxPairs}
DemoRawLists == UNION {[1..n -> RawPairs \cup {RAW_USD_JPY}] : n \in 0..MaxPairs}

VARIABLES
    args_retry,        \* args.retry
    args_retry_delay,  \* args.retry_delay
    args_pairs,        \* args.pairs
    args_demo,         \* args.demo
    mpc,               \* the statement of main about to run
    rates,             \* main's local of the same name
    error,             \* the exception that reached main's try block
    stdout,            \* what main printed: the format of each result output
    stderr,            \* the errors main printed as "Error: <message>" lines
    saved,             \* whether the snapshot file was written
    exit_code,         \* what main returned (-1 while it has not)
    lookups,           \* the calls of load_demo_data
    first_error,       \* the first error caught for pairs[idx], until a call succeeds
    last_out,          \* the outcome of the latest call of fetch_exchange_rate
    pairs,             \* run_scanner's parameters
    api_key,
    retry,
    retry_delay,
    pc,                \* the statement about to run
    idx,               \* position of the for loop in pairs (0 before the first)
    attempt,           \* the local of the same name
    results,           \* the local of the same name
    returned,          \* what run_scanner returned: <<results>>, or <<>> if nothing
    raised,            \* the exceptions that left run_scanner, in order
    calls,             \* calls[i]: the exception class ("" for none) each call of
                       \* fetch_exchange_rate for pairs[i] ended with, in order
    sleeps,            \* sleeps[i]: the time.sleep() durations taken for pairs[i]
    fetched,           \* fetched[i]: what the calls for pairs[i] returned, in order
    u_pc,              \* harness of the pure functions: "call", then "done"
    u_pair,            \* the pair fetch_exchange_rate is called for
    u_response,        \* the provider's response to it
    u_payload,         \* the argument of from_api
    u_raws,            \* the argument of parse_pairs
    u_out              \* the outcome of the call

runVars == <<args_retry, args_retry_delay, pairs,
             api_key, retry, retry_delay, pc, idx, attempt, results, returned,
             raised, calls, sleeps, fetched>>
mainVars == <<args_pairs, args_demo, mpc, rates, error, stdout, stderr, saved,
              exit_code, lookups>>
callVars == <<first_error, last_out>>
unitVars == <<u_pc, u_pair, u_response, u_payload, u_raws, u_out>>
vars == <<runVars, mainVars, callVars, unitVars>>

Max(a, b) == IF a >= b THEN a ELSE b

\* Python truthiness of an Optional[str]
Truthy(value) == ~value.isnone /\ value.s # <<>>

TS == <<"2", "0", "2", "4">>

\* one quote subtree: the fields present and their strings
Quote(from_code, to_code, rate, last, bid, ask) ==
    Dict([k \in FieldKeys |->
            CASE k = K_FROM -> from_code [] k = K_TO -> to_code [] k = K_RATE -> rate
              [] k = K_LAST -> last [] k = K_BID -> bid [] k = K_ASK -> ask])

\* d without key k
Without(d, k) == Dict([j \in (DOMAIN d.items) \ {k} |-> d.items[j]])

(***************************************************************************)
(* load_demo_data                                                          *)
(***************************************************************************)

MSG_DEMO_UNAVAILABLE == "Demo data unavailable for"

DEMO_LAST_REFRESHED == <<"2", "0", "2", "4", "-", "0", "5", "-", "0", "1", " ", "1", "5", ":", "3", "5", ":", "0", "0">>

\* the keys of demo_payload (lines 199-238)
DemoKeys ==
    { <<"E", "U", "R", "/", "U", "S", "D">>,
      <<"G", "B", "P", "/", "U", "S", "D">>,
      <<"U", "S", "D", "/", "J", "P", "Y">>,
      <<"U", "S", "D", "/", "C", "H", "F">>,
      <<"A", "U", "D", "/", "U", "S", "D">> }

\* demo_payload[key] for a key of the table
demo_payload(key) ==
    CASE
         key = <<"E", "U", "R", "/", "U", "S", "D">> ->
           Quote(<<"E", "U", "R">>, <<"U", "S", "D">>, <<"1", ".", "0", "8", "6", "5", "0">>,
                 DEMO_LAST_REFRESHED, <<"1", ".", "0", "8", "6", "3", "0">>,
                 <<"1", ".", "0", "8", "6", "7", "0">>)
      [] key = <<"G", "B", "P", "/", "U", "S", "D">> ->
           Quote(<<"G", "B", "P">>, <<"U", "S", "D">>, <<"1", ".", "2", "4", "5", "1", "0">>,
                 DEMO_LAST_REFRESHED, <<"1", ".", "2", "4", "4", "9", "0">>,
                 <<"1", ".", "2", "4", "5", "3", "0">>)
      [] key = <<"U", "S", "D", "/", "J", "P", "Y">> ->
           Quote(<<"U", "S", "D">>, <<"J", "P", "Y">>, <<"1", "5", "4", ".", "8", "2", "0", "0">>,
                 DEMO_LAST_REFRESHED, <<"1", "5", "4", ".", "7", "8", "0", "0">>,
                 <<"1", "5", "4", ".", "8", "6", "0", "0">>)
      [] key = <<"U", "S", "D", "/", "C", "H", "F">> ->
           Quote(<<"U", "S", "D">>, <<"C", "H", "F">>, <<"0", ".", "9", "0", "6", "8", "0">>,
                 DEMO_LAST_REFRESHED, <<"0", ".", "9", "0", "6", "6", "0">>,
                 <<"0", ".", "9", "0", "7", "0", "0">>)
      [] key = <<"A", "U", "D", "/", "U", "S", "D">> ->
           Quote(<<"A", "U", "D">>, <<"U", "S", "D">>, <<"0", ".", "6", "5", "3", "2", "0">>,
                 DEMO_LAST_REFRESHED, <<"0", ".", "6", "5", "3", "0", "0">>,
                 <<"0", ".", "6", "5", "3", "4", "0">>)

\* f"{base}/{quote}"
PairKey(pair) == pair[1] \o <<"/">> \o pair[2]

\* load_demo_data leaving out the pairs that are not in the table
RECURSIVE load_demo_data_SkipAbsent(_)
load_demo_data_SkipAbsent(ps) ==
    IF ps = <<>> THEN Ok(<<>>)
    ELSE LET rest == load_demo_data_SkipAbsent(SubSeq(ps, 1, Len(ps) - 1))
             pair == ps[Len(ps)]
         IN  IF PairKey(pair) \notin DemoKeys THEN rest
             ELSE Ok(Append(rest.val, from_api(demo_payload(PairKey(pair))).val))

\* lines 240-248: the first pair that is not in the table raises and nothing
\* is returned; otherwise val is the list of the table's records, in order
RECURSIVE load_demo_data(_)
load_demo_data(ps) ==
    IF ps = <<>> THEN Ok(<<>>)
    ELSE LET rest == load_demo_data(SubSeq(ps, 1, Len(ps) - 1))
             pair == ps[Len(ps)]
         IN  IF rest.exc # "" THEN rest
             ELSE IF PairKey(pair) \notin DemoKeys
                 THEN ForexScannerError(MSG_DEMO_UNAVAILABLE, pair, "", "", <<>>)
             ELSE IF from_api(demo_payload(PairKey(pair))).exc # ""
                 THEN from_api(demo_payload(PairKey(pair)))
             ELSE Ok(Append(rest.val, from_api(demo_payload(PairKey(pair))).val))

ObjectWith(has, data) ==
    Body("object", has, <<"b", "a", "d">>, <<"s", "l", "o", "w">>, data)

\* What the provider may answer to a request for base/quote during a scan: a
\* quote, each failure the code classifies, a quote
\* with a missing or malformed rate, a body that is not JSON, a JSON scalar,
\* and an object whose result subtree is not an object.
ScanResponses(base, quote) ==
    LET q == Quote(base, quote, <<"1", ".", "5">>, TS, <<"1", ".", "4">>, <<"1", ".", "6">>)
    IN  { Response(TRUE, TRUE, ObjectWith({data_key}, q)),
          Response(FALSE, FALSE, ObjectWith({}, NonDict)),
          Response(TRUE, FALSE, ObjectWith({ERROR_MESSAGE}, NonDict)),
          Response(TRUE, TRUE, ObjectWith({ERROR_MESSAGE}, NonDict)),
          Response(TRUE, TRUE, ObjectWith({NOTE}, NonDict)),
          Response(TRUE, TRUE, ObjectWith({}, NonDict)),
          Response(TRUE, TRUE, ObjectWith({data_key}, Without(q, K_RATE))),
          Response(TRUE, TRUE,
                   ObjectWith({data_key}, Quote(base, quote, <<"a", "b", "c">>, TS, <<>>, <<>>))),
          Response(TRUE, TRUE, Body("notjson", {}, <<>>, <<>>, NonDict)),
          Response(TRUE, TRUE, Body("scalar", {}, <<>>, <<>>, NonDict)),
          Response(TRUE, TRUE, ObjectWith({data_key}, NonDict)) }

NoResponse == Response(FALSE, FALSE, Body("notjson", {}, <<>>, <<>>, NonDict))

\* the harness is idle while run_scanner runs
UnitIdle ==
    /\ u_pc = "idle"
    /\ u_pair = <<EUR, USD>>
    /\ u_response = NoResponse
    /\ u_payload = NonDict
    /\ u_raws = <<>>
    /\ u_out = Ok(NoRate)

\* main is entered with the parsed arguments; nothing has run yet
Init ==
    /\ args_retry \in ArgsRetry
    /\ args_retry_delay \in ArgsRetryDelay
    /\ args_demo \in BOOLEAN
    /\ args_pairs \in (IF args_demo THEN DemoRawLists ELSE RawLists)
    /\ mpc = "parse_pairs"
    /\ rates = <<>>
    /\ error = Ok(NoRate)
    /\ stdout = <<>>
    /\ stderr = <<>>
    /\ saved = FALSE
    /\ exit_code = -1
    /\ lookups = 0
    /\ first_error = Ok(NoRate)
    /\ last_out = Ok(NoRate)
    /\ pairs = <<>>
    /\ api_key = NoneStr
    /\ retry = 0
    /\ retry_delay = 0
    /\ pc = "main"
    /\ idx = 0
    /\ attempt = 0
    /\ results = <<>>
    /\ returned = <<>>
    /\ raised = <<>>
    /\ calls = <<>>
    /\ sleeps = <<>>
    /\ fetched = <<>>
    /\ UnitIdle

\* main, lines 303-304: every raw string is parsed before anything else runs;
\* an error goes to the except clause, otherwise the mode is chosen
ParsePairs ==
    /\ mpc = "parse_pairs"
    /\ LET out == parse_pairs(args_pairs)
       IN  IF out.exc # ""
           THEN /\ error' = out
                /\ mpc' = "except"
                /\ UNCHANGED <<pairs, calls, sleeps, fetched>>
           ELSE /\ pairs' = out.val
                /\ calls' = [i \in 1..Len(out.val) |-> <<>>]
                /\ sleeps' = [i \in 1..Len(out.val) |-> <<>>]
                /\ fetched' = [i \in 1..Len(out.val) |-> <<>>]
                /\ mpc' = IF args_demo THEN "load_demo_data" ELSE "call"
                /\ UNCHANGED error
    /\ UNCHANGED <<args_retry, args_retry_delay, api_key, retry, retry_delay, pc,
                   idx, attempt, results, returned, raised>>
    /\ UNCHANGED <<args_pairs, args_demo, rates, stdout, stderr, saved, exit_code,
                   lookups>>
    /\ UNCHANGED callVars
    /\ UNCHANGED unitVars

\* main, line 305
LoadDemoData ==
    /\ mpc = "load_demo_data"
    /\ lookups' = lookups + 1
    /\ LET out == load_demo_data(pairs)
       IN  IF out.exc # ""
           THEN /\ error' = out
                /\ mpc' = "except"
                /\ UNCHANGED rates
           ELSE /\ rates' = out.val
                /\ mpc' = "output"
                /\ UNCHANGED error
    /\ UNCHANGED <<args_pairs, args_demo, stdout, stderr, saved, exit_code>>
    /\ UNCHANGED runVars
    /\ UNCHANGED callVars
    /\ UNCHANGED unitVars

\* CallRunScanner passing args.retry and args.retry_delay as they are
CallRunScanner_NoClamp ==
    /\ mpc = "call"
    /\ pc = "main"
    /\ \E args_api_key \in ApiKeys, env_api_key \in ApiKeys :
         api_key' = IF Truthy(args_api_key) THEN args_api_key ELSE env_api_key
    /\ retry' = args_retry
    /\ retry_delay' = args_retry_delay
    /\ pc' = "run_scanner"
    /\ mpc' = "run_scanner"
    /\ UNCHANGED <<args_retry, args_retry_delay, pairs,
                   idx, attempt, results, returned, raised, calls, sleeps, fetched>>
    /\ UNCHANGED <<args_pairs, args_demo, rates, error, stdout, stderr, saved,
                   exit_code, lookups>>
    /\ UNCHANGED callVars
    /\ UNCHANGED unitVars

\* main, lines 307-313: the credential and the clamped retry parameters
CallRunScanner ==
    /\ mpc = "call"
    /\ pc = "main"
    /\ \E args_api_key \in ApiKeys, env_api_key \in ApiKeys :
         api_key' = IF Truthy(args_api_key) THEN args_api_key ELSE env_api_key
    /\ retry' = Max(0, args_retry)
    /\ retry_delay' = Max(MIN_RETRY_DELAY, args_retry_delay)
    /\ pc' = "run_scanner"
    /\ mpc' = "run_scanner"
    /\ UNCHANGED <<args_retry, args_retry_delay, pairs,
                   idx, attempt, results, returned, raised, calls, sleeps, fetched>>
    /\ UNCHANGED <<args_pairs, args_demo, rates, error, stdout, stderr, saved,
                   exit_code, lookups>>
    /\ UNCHANGED callVars
    /\ UNCHANGED unitVars

\* CheckApiKey with `api_key is None` for `not api_key`
CheckApiKey_NoneOnly ==
    /\ pc = "run_scanner"
    /\ IF api_key.isnone
       THEN /\ raised' = Append(raised, ForexScannerError(MSG_MISSING_KEY, <<>>, "", "", <<>>))
            /\ pc' = "raised"
            /\ UNCHANGED results
       ELSE /\ results' = <<>>
            /\ pc' = "for"
            /\ UNCHANGED raised
    /\ UNCHANGED <<args_retry, args_retry_delay, pairs,
                   api_key, retry, retry_delay, idx, attempt, returned, calls,
                   sleeps, fetched>>
    /\ UNCHANGED mainVars
    /\ UNCHANGED callVars
    /\ UNCHANGED unitVars

\* lines 137-143
CheckApiKey ==
    /\ pc = "run_scanner"
    /\ IF ~Truthy(api_key)
       THEN /\ raised' = Append(raised, ForexScannerError(MSG_MISSING_KEY, <<>>, "", "", <<>>))
            /\ pc' = "raised"
            /\ UNCHANGED results
       ELSE /\ results' = <<>>
            /\ pc' = "for"
            /\ UNCHANGED raised
    /\ UNCHANGED <<args_retry, args_retry_delay, pairs,
                   api_key, retry, retry_delay, idx, attempt, returned, calls,
                   sleeps, fetched>>
    /\ UNCHANGED mainVars
    /\ UNCHANGED callVars
    /\ UNCHANGED unitVars

\* ForNext without line 145: the counter is carried over to the next pair
ForNext_KeepAttempt ==
    /\ pc = "for"
    /\ IF idx < Len(pairs)
       THEN /\ idx' = idx + 1
            /\ UNCHANGED attempt
            /\ pc' = "while"
            /\ UNCHANGED returned
       ELSE /\ returned' = <<results>>
            /\ pc' = "returned"
            /\ UNCHANGED <<idx, attempt>>
    /\ UNCHANGED <<args_retry, args_retry_delay, pairs,
                   api_key, retry, retry_delay, results, raised, calls, sleeps,
                   fetched>>
    /\ UNCHANGED mainVars
    /\ UNCHANGED callVars
    /\ UNCHANGED unitVars

\* lines 144-145 and 156: the next pair, or the return after the last one
ForNext ==
    /\ pc = "for"
    /\ IF idx < Len(pairs)
       THEN /\ idx' = idx + 1
            /\ attempt' = 0
            /\ pc' = "while"
            /\ UNCHANGED returned
       ELSE /\ returned' = <<results>>
            /\ pc' = "returned"
            /\ UNCHANGED <<idx, attempt>>
    /\ UNCHANGED <<args_retry, args_retry_delay, pairs,
                   api_key, retry, retry_delay, results, raised, calls, sleeps,
                   fetched>>
    /\ UNCHANGED mainVars
    /\ UNCHANGED callVars
    /\ UNCHANGED unitVars

\* Handle with a failing pair isolated: on exhaustion the error is recorded
\* and the loop goes on to the next pair
Handle_IsolatePair(out) ==
    IF out.exc = ""
    THEN /\ results' = Append(results, out.val)
         /\ pc' = "for"
         /\ UNCHANGED <<attempt, raised>>
    ELSE IF out.exc = "ForexScannerError"
    THEN /\ attempt' = attempt + 1
         /\ IF attempt + 1 > retry
            THEN /\ raised' = Append(raised, out)
                 /\ pc' = "for"
            ELSE /\ pc' = "sleep"
                 /\ UNCHANGED raised
         /\ UNCHANGED results
    ELSE /\ raised' = Append(raised, out)
         /\ pc' = "raised"
         /\ UNCHANGED <<attempt, results>>

\* Handle retrying at once, without the time.sleep of line 155
Handle_NoSleep(out) ==
    IF out.exc = ""
    THEN /\ results' = Append(results, out.val)
         /\ pc' = "for"
         /\ UNCHANGED <<attempt, raised>>
    ELSE IF out.exc = "ForexScannerError"
    THEN /\ attempt' = attempt + 1
         /\ IF attempt + 1 > retry
            THEN /\ raised' = Append(raised, out)
                 /\ pc' = "raised"
            ELSE /\ pc' = "while"
                 /\ UNCHANGED raised
         /\ UNCHANGED results
    ELSE /\ raised' = Append(raised, out)
         /\ pc' = "raised"
         /\ UNCHANGED <<attempt, results>>

\* Handle with `attempt >= retry` for `attempt > retry`
Handle_OffByOne(out) ==
    IF out.exc = ""
    THEN /\ results' = Append(results, out.val)
         /\ pc' = "for"
         /\ UNCHANGED <<attempt, raised>>
    ELSE IF out.exc = "ForexScannerError"
    THEN /\ attempt' = attempt + 1
         /\ IF attempt + 1 >= retry
            THEN /\ raised' = Append(raised, out)
                 /\ pc' = "raised"
            ELSE /\ pc' = "sleep"
                 /\ UNCHANGED raised
         /\ UNCHANGED results
    ELSE /\ raised' = Append(raised, out)
         /\ pc' = "raised"
         /\ UNCHANGED <<attempt, results>>

\* Handle with results.insert(0, rate) for results.append(rate)
Handle_Prepend(out) ==
    IF out.exc = ""
    THEN /\ results' = <<out.val>> \o results
         /\ pc' = "for"
         /\ UNCHANGED <<attempt, raised>>
    ELSE IF out.exc = "ForexScannerError"
    THEN /\ attempt' = attempt + 1
         /\ IF attempt + 1 > retry
            THEN /\ raised' = Append(raised, out)
                 /\ pc' = "raised"
            ELSE /\ pc' = "sleep"
                 /\ UNCHANGED raised
         /\ UNCHANGED results
    ELSE /\ raised' = Append(raised, out)
         /\ pc' = "raised"
         /\ UNCHANGED <<attempt, results>>

\* Handle raising, at exhaustion, the first error caught for the pair
Handle_RaiseFirst(out) ==
    IF out.exc = ""
    THEN /\ results' = Append(results, out.val)
         /\ pc' = "for"
         /\ UNCHANGED <<attempt, raised>>
    ELSE IF out.exc = "ForexScannerError"
    THEN /\ attempt' = attempt + 1
         /\ IF attempt + 1 > retry
            THEN /\ raised' = Append(raised, IF first_error.exc # "" THEN first_error ELSE out)
                 /\ pc' = "raised"
            ELSE /\ pc' = "sleep"
                 /\ UNCHANGED raised
         /\ UNCHANGED results
    ELSE /\ raised' = Append(raised, out)
         /\ pc' = "raised"
         /\ UNCHANGED <<attempt, results>>

\* Handle without `attempt += 1`
Handle_NoCount(out) ==
    IF out.exc = ""
    THEN /\ results' = Append(results, out.val)
         /\ pc' = "for"
         /\ UNCHANGED <<attempt, raised>>
    ELSE IF out.exc = "ForexScannerError"
    THEN /\ UNCHANGED attempt
         /\ IF attempt > retry
            THEN /\ raised' = Append(raised, out)
                 /\ pc' = "raised"
            ELSE /\ pc' = "sleep"
                 /\ UNCHANGED raised
         /\ UNCHANGED results
    ELSE /\ raised' = Append(raised, out)
         /\ pc' = "raised"
         /\ UNCHANGED <<attempt, results>>

\* lines 147-154 when the call of line 148 ends with outcome `out`
Handle(out) ==
    IF out.exc = ""
    THEN /\ results' = Append(results, out.val)
         /\ pc' = "for"
         /\ UNCHANGED <<attempt, raised>>
    ELSE IF out.exc = "ForexScannerError"
    THEN /\ attempt' = attempt + 1
         /\ IF attempt + 1 > retry
            THEN /\ raised' = Append(raised, out)
                 /\ pc' = "raised"
            ELSE /\ pc' = "sleep"
                 /\ UNCHANGED raised
         /\ UNCHANGED results
    ELSE /\ raised' = Append(raised, out)
         /\ pc' = "raised"
         /\ UNCHANGED <<attempt, results>>

\* one pass of the while loop up to the sleep: the provider answers the
\* request for pairs[idx] with any of its responses; an observed pass also
\* keeps the outcome of the call in callVars
Try(observed) ==
    /\ pc = "while"
    /\ \E response \in ScanResponses(pairs[idx][1], pairs[idx][2]) :
         LET out == fetch_exchange_rate(api_key.s, pairs[idx][1], pairs[idx][2], response)
         IN  /\ calls' = [calls EXCEPT ![idx] = Append(@, out.exc)]
             /\ fetched' = [fetched EXCEPT ![idx] =
                              IF out.exc = "" THEN Append(@, out.val) ELSE @]
             /\ IF observed
                THEN /\ first_error' = IF out.exc = "" THEN Ok(NoRate)
                                       ELSE IF calls[idx] = <<>> THEN out
                                       ELSE first_error
                     /\ last_out' = out
                ELSE UNCHANGED callVars
             /\ Handle(out)
    /\ UNCHANGED <<args_retry, args_retry_delay, pairs,
                   api_key, retry, retry_delay, idx, returned, sleeps>>
    /\ UNCHANGED mainVars
    /\ UNCHANGED unitVars

Attempt == Try(FALSE)

\* line 155
Sleep ==
    /\ pc = "sleep"
    /\ sleeps' = [sleeps EXCEPT ![idx] = Append(@, retry_delay)]
    /\ pc' = "while"
    /\ UNCHANGED <<args_retry, args_retry_delay, pairs,
                   api_key, retry, retry_delay, idx, attempt, results, returned,
                   raised, calls, fetched>>
    /\ UNCHANGED mainVars
    /\ UNCHANGED callVars
    /\ UNCHANGED unitVars

\* main, line 308 once run_scanner has ended: its list is assigned to rates;
\* a ForexScannerError goes to the except clause; any other exception is not
\* caught and leaves main
ReturnToMain ==
    /\ mpc = "run_scanner"
    /\ pc \in {"returned", "raised"}
    /\ IF pc = "returned"
       THEN /\ rates' = returned[1]
            /\ mpc' = "output"
            /\ UNCHANGED error
       ELSE /\ error' = raised[Len(raised)]
            /\ mpc' = IF raised[Len(raised)].exc = "ForexScannerError"
                      THEN "except" ELSE "uncaught"
            /\ UNCHANGED rates
    /\ UNCHANGED <<args_pairs, args_demo, stdout, stderr, saved, exit_code, lookups>>
    /\ UNCHANGED runVars
    /\ UNCHANGED callVars
    /\ UNCHANGED unitVars

\* main, lines 314-344 and 348: the table or the JSON text is printed, the
\* snapshot is written if --save was given (the write is taken to succeed),
\* and main returns 0
Output ==
    /\ mpc = "output"
    /\ \E args_output \in {"table", "json"} : stdout' = Append(stdout, args_output)
    /\ \E args_save \in BOOLEAN : saved' = args_save
    /\ exit_code' = 0
    /\ mpc' = "exit"
    /\ UNCHANGED <<args_pairs, args_demo, rates, error, stderr, lookups>>
    /\ UNCHANGED runVars
    /\ UNCHANGED callVars
    /\ UNCHANGED unitVars

\* Except without the return of line 347, falling through to line 348
Except_ExitZero ==
    /\ mpc = "except"
    /\ stderr' = Append(stderr, error)
    /\ exit_code' = 0
    /\ mpc' = "exit"
    /\ UNCHANGED <<args_pairs, args_demo, rates, error, stdout, saved, lookups>>
    /\ UNCHANGED runVars
    /\ UNCHANGED callVars
    /\ UNCHANGED unitVars

\* main, lines 345-347
Except ==
    /\ mpc = "except"
    /\ stderr' = Append(stderr, error)
    /\ exit_code' = 1
    /\ mpc' = "exit"
    /\ UNCHANGED <<args_pairs, args_demo, rates, error, stdout, saved, lookups>>
    /\ UNCHANGED runVars
    /\ UNCHANGED callVars
    /\ UNCHANGED unitVars

Next ==
    \/ ParsePairs
    \/ LoadDemoData
    \/ CallRunScanner
    \/ CheckApiKey
    \/ ForNext
    \/ Attempt
    \/ Sleep
    \/ ReturnToMain
    \/ Output
    \/ Except

Spec == Init /\ [][Next]_vars

\* a live run in which every call's outcome is observed, for batches of at
\* most MaxObserved pairs
MaxObserved == 2

AttemptObserved == Try(TRUE)

InitObserved ==
    /\ Init
    /\ ~args_demo
    /\ Len(args_pairs) <= MaxObserved
    /\ args_retry >= 0
    /\ args_retry_delay >= MIN_RETRY_DELAY

NextObserved ==
    \/ ParsePairs
    \/ CallRunScanner
    \/ CheckApiKey
    \/ ForNext
    \/ AttemptObserved
    \/ Sleep
    \/ ReturnToMain
    \/ Output
    \/ Except

SpecObserved == InitObserved /\ [][NextObserved]_vars

(***************************************************************************)
(* The pure functions on their own: the inputs are drawn in the initial    *)
(* state and one step applies the function.                                *)
(***************************************************************************)

\* run_scanner is not running
RunIdle ==
    /\ args_retry = 0
    /\ args_retry_delay = 0
    /\ pairs = <<>>
    /\ api_key = Str(KEY)
    /\ retry = 0
    /\ retry_delay = 0
    /\ pc = "idle"
    /\ idx = 0
    /\ attempt = 0
    /\ results = <<>>
    /\ returned = <<>>
    /\ raised = <<>>
    /\ calls = <<>>
    /\ sleeps = <<>>
    /\ fetched = <<>>
    /\ args_pairs = <<>>
    /\ args_demo = FALSE
    /\ mpc = "idle"
    /\ rates = <<>>
    /\ error = Ok(NoRate)
    /\ stdout = <<>>
    /\ stderr = <<>>
    /\ saved = FALSE
    /\ exit_code = -1
    /\ lookups = 0
    /\ first_error = Ok(NoRate)
    /\ last_out = Ok(NoRate)

\* marks a key the payload does not have; no string of the model equals it
Absent == <<"absent">>

\* the dict with the keys whose choice is not Absent
MkPayload(choice) ==
    Dict([k \in {j \in FieldKeys : choice[j] # Absent} |-> choice[k]])

\* strings a rate, bid or ask field may hold
NumStrings ==
    { <<"1", ".", "0", "8", "6", "5", "0">>, <<"1", ".", "5">>, <<" ", "2", " ">>,
      <<"0">>, <<"-", "1", ".", "5">>, <<"n", "a", "n">>, <<"i", "n", "f">>,
      <<>>, <<"a", "b", "c">>, <<"1", ".", "2", ".", "3">> }

OptStrings ==
    { <<"1", ".", "4">>, <<"1", ".", "4", "0">>, <<"-", "1", ".", "5">>,
      <<"n", "a", "n">>, <<>>, <<"a", "b", "c">> }

Payloads ==
    { MkPayload([k \in FieldKeys |->
                   CASE k = K_FROM -> f [] k = K_TO -> t [] k = K_RATE -> r
                     [] k = K_LAST -> l [] k = K_BID -> b [] k = K_ASK -> a]) :
        f \in {Absent, EUR}, t \in {Absent, USD}, r \in NumStrings \cup {Absent},
        l \in {Absent, TS}, b \in OptStrings \cup {Absent},
        a \in OptStrings \cup {Absent} }

InitFromApi ==
    /\ RunIdle
    /\ u_pc = "call"
    /\ u_pair = <<EUR, USD>>
    /\ u_response = NoResponse
    /\ u_payload \in Payloads
    /\ u_raws = <<>>
    /\ u_out = Ok(NoRate)

CallFromApi ==
    /\ u_pc = "call"
    /\ u_out' = from_api(u_payload)
    /\ u_pc' = "done"
    /\ UNCHANGED <<u_pair, u_response, u_payload, u_raws>>
    /\ UNCHANGED <<runVars, mainVars, callVars>>

SpecFromApi == InitFromApi /\ [][CallFromApi]_vars

BodyTypes == {"notjson", "scalar", "list", "string", "object"}

\* result subtrees: not an object, a full quote, quotes with a defect
FetchData ==
    LET q == Quote(EUR, USD, <<"1", ".", "5">>, TS, <<"1", ".", "4">>, <<>>)
    IN  { NonDict, q, Without(q, K_RATE), Without(q, K_BID),
          Quote(EUR, USD, <<"a", "b", "c">>, TS, <<>>, <<>>) }

FetchResponses ==
    { Response(t, s, Body(ty, has, <<"b", "a", "d">>, <<"s", "l", "o", "w">>, d)) :
        t \in BOOLEAN, s \in BOOLEAN, ty \in BodyTypes, has \in SUBSET TopKeys,
        d \in FetchData }

InitFetch ==
    /\ RunIdle
    /\ u_pc = "call"
    /\ u_pair \in AllPairs
    /\ u_response \in FetchResponses
    /\ u_payload = NonDict
    /\ u_raws = <<>>
    /\ u_out = Ok(NoRate)

CallFetch ==
    /\ u_pc = "call"
    /\ u_out' = fetch_exchange_rate(KEY, u_pair[1], u_pair[2], u_response)
    /\ u_pc' = "done"
    /\ UNCHANGED <<u_pair, u_response, u_payload, u_raws>>
    /\ UNCHANGED <<runVars, mainVars, callVars>>

SpecFetch == InitFetch /\ [][CallFetch]_vars

\* parse_pairs on its own: every raw string of at most MaxLen characters over
\* ParseChars as a one-element list, and every list of at most two of the
\* strings of ParseSamples
MaxLen == 4

ParseChars == {"e", "U", "-", "/", " "}

ParseStrings == UNION {[1..n -> ParseChars] : n \in 0..MaxLen}

RAW_EUR_DASH_USD == <<"E", "U", "R", "-", "U", "S", "D">>
RAW_eur_usd      == <<"e", "u", "r", "/", "u", "s", "d">>
RAW_NO_BASE      == <<"/", "U", "S", "D">>
RAW_NO_QUOTE     == <<"E", "U", "R", "/">>

ParseSamples ==
    {RAW_EUR_DASH_USD, RAW_eur_usd, RAW_EURUSD, RAW_NO_BASE, RAW_NO_QUOTE, RAW_USD_JPY}

ParseInputs ==
    {<<raw>> : raw \in ParseStrings} \cup UNION {[1..n -> ParseSamples] : n \in 0..2}

InitParsePairs ==
    /\ RunIdle
    /\ u_pc = "call"
    /\ u_pair = <<EUR, USD>>
    /\ u_response = NoResponse
    /\ u_payload = NonDict
    /\ u_raws \in ParseInputs
    /\ u_out = Ok(NoRate)

CallParsePairs ==
    /\ u_pc = "call"
    /\ u_out' = parse_pairs(u_raws)
    /\ u_pc' = "done"
    /\ UNCHANGED <<u_pair, u_response, u_payload, u_raws>>
    /\ UNCHANGED <<runVars, mainVars, callVars>>

SpecParsePairs == InitParsePairs /\ [][CallParsePairs]_vars

(***************************************************************************)
(* Properties of run_scanner                                               *)
(***************************************************************************)

\* the domain errors among the calls made for pairs[i]
Failures(i) == Cardinality({n \in 1..Len(calls[i]) : calls[i][n] = "ForexScannerError"})

\* a call for pairs[i] returned a record
Succeeded(i) == \E n \in 1..Len(calls[i]) : calls[i][n] = ""

\* pairs[i] used up its retry budget: more domain errors than retries
Exhausted(i) == Failures(i) > retry

\* C1: if some pair exhausts its retry budget, the call has ended with exactly
\* one propagated error, has returned no result list, and no pair after the
\* failing one has been attempted (no call, no delay).
C1_BatchTerminal ==
    \A i \in 1..Len(pairs) :
        Exhausted(i) =>
            /\ pc = "raised"
            /\ Len(raised) = 1
            /\ returned = <<>>
            /\ \A j \in (i + 1)..Len(pairs) : calls[j] = <<>> /\ sleeps[j] = <<>>

\* three pairs, the first fetched, the second exhausted after two retries
C1_Witness ==
    /\ Len(pairs) = 3
    /\ retry = 2
    /\ Succeeded(1)
    /\ Exhausted(2)
    /\ Len(results) = 1
    /\ pc = "raised"

\* C2: a pair whose fetch fails k times with a domain error and then succeeds
\* has k <= retry, took exactly k+1 attempts and k delays, and the batch goes
\* on: the loop is at its head for the next pair (or has returned after the
\* last pair), never raised by this pair.
C2_FailThenSucceed ==
    \A i \in 1..Len(pairs) :
        Succeeded(i) =>
            /\ Failures(i) <= retry
            /\ Len(calls[i]) = Failures(i) + 1
            /\ calls[i][Len(calls[i])] = ""
            /\ Len(sleeps[i]) = Failures(i)
            /\ Len(results) >= i
            /\ idx = i => pc \in {"for", "returned"}
            /\ pc = "returned" => idx = Len(pairs)

\* budget 2, a pair that failed twice and then succeeded, the next pair begun
C2_Witness ==
    \E i \in 1..Len(pairs) :
        /\ retry = 2
        /\ Succeeded(i)
        /\ Failures(i) = 2
        /\ Len(calls[i]) = 3
        /\ Len(sleeps[i]) = 2
        /\ idx = i + 1

\* every call made for pairs[i] ended with a domain error
AllFailed(i) ==
    /\ calls[i] # <<>>
    /\ \A n \in 1..Len(calls[i]) : calls[i][n] = "ForexScannerError"

\* C3: a pair whose fetch fails with a domain error on every attempt is, once
\* the call has ended, attempted exactly retry+1 times with exactly retry
\* delays (none after the final failure); with retry = 0 that is one call and
\* no delay.  Until then it has had at most that many.
C3_ExhaustCounts ==
    \A i \in 1..Len(pairs) :
        AllFailed(i) =>
            /\ Len(calls[i]) <= retry + 1
            /\ Len(sleeps[i]) <= retry
            /\ pc = "raised" =>
                 /\ Len(calls[i]) = retry + 1
                 /\ Len(sleeps[i]) = retry
                 /\ retry = 0 => Len(calls[i]) = 1 /\ sleeps[i] = <<>>

\* budget 0: one failing call ended the batch without a delay
C3_Witness ==
    /\ retry = 0
    /\ pc = "raised"
    /\ Len(pairs) = 2
    /\ AllFailed(1)
    /\ Len(calls[1]) = 1
    /\ sleeps[1] = <<>>
    /\ raised[1].msg = MSG_INVALID_NUM

\* C4: when the credential is None or empty, run_scanner ends with the
\* missing-credential error and nothing else: no call of the provider and no
\* delay, whatever the retry budget and the pairs.
C4_MissingCredential ==
    (pc \notin {"main", "run_scanner"} /\ ~Truthy(api_key)) =>
        /\ pc = "raised"
        /\ raised = <<ForexScannerError(MSG_MISSING_KEY, <<>>, "", "", <<>>)>>
        /\ returned = <<>>
        /\ \A i \in 1..Len(pairs) : calls[i] = <<>> /\ sleeps[i] = <<>>

\* an empty credential, three pairs, budget 2
C4_Witness ==
    /\ pc = "raised"
    /\ api_key = Str(<<>>)
    /\ Len(pairs) = 3
    /\ retry = 2
    /\ raised # <<>>

\* C5: the results accumulated so far are the records fetched for a prefix of
\* the pairs, in input order; a return hands back exactly results, one record
\* per pair.
C5_InputOrder ==
    /\ Len(results) <= Len(pairs)
    /\ \A i \in 1..Len(results) : fetched[i] = <<results[i]>>
    /\ \A i \in (Len(results) + 1)..Len(pairs) : fetched[i] = <<>>
    /\ pc = "returned" => returned = <<results>> /\ Len(results) = Len(pairs)

\* a returned list of three records for three pairs that are not all equal
C5_Witness ==
    /\ pc = "returned"
    /\ Len(pairs) = 3
    /\ pairs[1] # pairs[2]
    /\ Len(returned[1]) = 3
    /\ returned[1][2].from_currency = pairs[2][1]

\* C8: every failure of a fetch-and-parse attempt is a ForexScannerError: each
\* call of fetch_exchange_rate ends with a record or a domain error, and what
\* leaves run_scanner is a domain error.
C8_OnlyDomainErrors ==
    /\ \A i \in 1..Len(pairs) : \A n \in 1..Len(calls[i]) :
          calls[i][n] \in {"", "ForexScannerError"}
    /\ \A n \in 1..Len(raised) : raised[n].exc = "ForexScannerError"

(***************************************************************************)
(* Properties of fetch_exchange_rate (SpecFetch)                           *)
(***************************************************************************)

\* the case of a response in the order the provider contract lists them
Case(response) ==
    IF ~response.transport_ok THEN "transport"
    ELSE IF ~response.status_ok THEN "status"
    ELSE IF ERROR_MESSAGE \in response.body.has THEN "provider_error"
    ELSE IF NOTE \in response.body.has THEN "rate_limit"
    ELSE IF data_key \notin response.body.has THEN "schema"
    ELSE "success"

\* the body decodes to a JSON object
IsObject(response) == response.body.type = "object"

\* C6: a response is classified by the earliest condition that holds:
\* transport failure, then HTTP status, then (for a body that is a JSON
\* object) error message, then notice, then missing result key, and only then
\* is the result subtree handed to the parser.
C6_PriorityOrder ==
    u_pc = "done" =>
        LET c == Case(u_response)
        IN  /\ c = "transport" =>
                 u_out = ForexScannerError(MSG_NETWORK, u_pair, "ConnectionError", "", <<>>)
            /\ c = "status" =>
                 u_out = ForexScannerError(MSG_NETWORK, u_pair, "HTTPError", "", <<>>)
            /\ (c = "provider_error" /\ IsObject(u_response)) =>
                 u_out = ForexScannerError(MSG_API_ERROR, u_pair, "", "",
                                           u_response.body.error_message)
            /\ (c = "rate_limit" /\ IsObject(u_response)) =>
                 u_out = ForexScannerError(MSG_API_LIMIT, u_pair, "", "",
                                           u_response.body.note)
            /\ (c = "schema" /\ IsObject(u_response)) =>
                 u_out = ForexScannerError(MSG_UNEXPECTED, u_pair, "", "", <<>>)
            /\ (c = "success" /\ IsObject(u_response)) =>
                 u_out = from_api(u_response.body.data)

\* a body with an error message, a notice and a valid result: provider error
C6_Witness ==
    /\ u_pc = "done"
    /\ u_response.transport_ok /\ u_response.status_ok /\ IsObject(u_response)
    /\ u_response.body.has = TopKeys
    /\ from_api(u_response.body.data).exc = ""
    /\ u_out.msg = MSG_API_ERROR

\* the outcome of the call for u_pair had the provider answered r
OutcomeOf(r) == fetch_exchange_rate(KEY, u_pair[1], u_pair[2], r)

NetworkCases == {"transport", "status"}

Required == {K_FROM, K_TO, K_RATE, K_LAST}

\* the rate is present and float() rejects it
BadRate(payload) ==
    Has(payload, K_RATE) /\ float(payload.items[K_RATE]).exc # ""

MissingField(key) == ForexScannerError(MSG_MISSING_FIELD, <<>>, "KeyError", key, <<>>)

\* C9 as stated: whichever required key is missing, the error is the
\* missing-field error naming it; whenever the rate is present and not a
\* number, the error is the invalid-numeric error; no record either way.
C9_AnyMissingFieldNamed ==
    u_pc = "done" =>
        /\ \A k \in Required : ~Has(u_payload, k) => u_out = MissingField(k)
        /\ BadRate(u_payload) =>
              u_out.exc = "ForexScannerError" /\ u_out.msg = MSG_INVALID_NUM

\* the required fields in the order the try block reads them
ReadOrder == <<K_FROM, K_TO, K_RATE, K_LAST>>

Defective(payload, k) ==
    ~Has(payload, k) \/ (k = K_RATE /\ BadRate(payload))

\* C9 amended: the required fields are read in the order from-code, to-code,
\* rate, last-refreshed; the first one that is missing, or (the rate) present
\* but not a number, decides the error: missing-field naming that field, or
\* invalid-numeric with the offending text.  No record is produced.
C9_FirstDefectDecides ==
    u_pc = "done" =>
        \A n \in 1..Len(ReadOrder) :
            ( /\ Defective(u_payload, ReadOrder[n])
              /\ \A m \in 1..(n - 1) : ~Defective(u_payload, ReadOrder[m]) ) =>
                /\ u_out.val = NoRate
                /\ IF ~Has(u_payload, ReadOrder[n])
                   THEN u_out = MissingField(ReadOrder[n])
                   ELSE u_out = ForexScannerError(MSG_INVALID_NUM, <<>>, "ValueError",
                                                  "", u_payload.items[K_RATE])

\* a rate that is not a number in a payload that also lacks last-refreshed
C9_Witness ==
    /\ u_pc = "done"
    /\ ~Has(u_payload, K_LAST)
    /\ Has(u_payload, K_FROM) /\ Has(u_payload, K_TO)
    /\ BadRate(u_payload)
    /\ u_out.msg = MSG_INVALID_NUM

\* the four required fields are present and the rate is a number
RequiredValid(payload) ==
    /\ \A k \in Required : Has(payload, k)
    /\ ~BadRate(payload)

\* what an optional field resolves to: absent, unless it holds a number
Resolved(payload, k) ==
    IF ~Has(payload, k) THEN None
    ELSE IF payload.items[k] = <<>> THEN None
    ELSE IF float(payload.items[k]).exc # "" THEN None
    ELSE float(payload.items[k]).val

\* C10: a payload whose required fields are valid yields a record whatever
\* its bid and ask are; each of the two, independently, is absent when its
\* key is missing or its string is empty or not a number, and its value
\* otherwise.
C10_LenientOptional ==
    (u_pc = "done" /\ RequiredValid(u_payload)) =>
        /\ u_out.exc = ""
        /\ u_out.val.bid_price = Resolved(u_payload, K_BID)
        /\ u_out.val.ask_price = Resolved(u_payload, K_ASK)
        /\ u_out.val.rate = float(u_payload.items[K_RATE]).val

\* a bid that is not a number beside a numeric ask
C10_Witness ==
    /\ u_pc = "done"
    /\ RequiredValid(u_payload)
    /\ Has(u_payload, K_BID) /\ u_payload.items[K_BID] = <<"a", "b", "c">>
    /\ Has(u_payload, K_ASK) /\ u_payload.items[K_ASK] = <<"1", ".", "4", "0">>
    /\ u_out.exc = ""
    /\ u_out.val.bid_price = None
    /\ u_out.val.ask_price = Float("fin", FALSE, 14, 1)

\* a finite number greater than zero
Positive(x) == x.k = "fin" /\ ~x.neg /\ x.mant > 0

\* C11: every record from_api produces has a rate that is a finite positive
\* number: a payload whose rate is zero, negative, nan or an infinity yields
\* no record.
C11_PositiveRate ==
    (u_pc = "done" /\ u_out.exc = "") => Positive(u_out.val.rate)

(***************************************************************************)
(* Properties of parse_pairs                                               *)
(***************************************************************************)

Separators == {"-", "/"}

Letters == {LowerLetters[i] : i \in 1..Len(LowerLetters)}
             \cup {UpperLetters[i] : i \in 1..Len(UpperLetters)}

\* a character up to its case and to the choice of separator
Fold(c) == IF c \in Separators THEN "/" ELSE UpperChar(c)

\* the strings that differ from raw only in letter case and in which of the
\* two separators they use
RECURSIVE Variants(_)
Variants(raw) ==
    IF raw = <<>> THEN {<<>>}
    ELSE { Append(v, c) : v \in Variants(SubSeq(raw, 1, Len(raw) - 1)),
                          c \in {d \in ParseChars \cup Letters : Fold(d) = Fold(raw[Len(raw)])} }

\* C12: every parsed pair is what any string differing from the raw one only
\* in separator and case parses to; its base holds no separator and base,
\* "/" and quote spell the stripped raw string folded to upper case and "/"
\* (the split is on the first separator); parsing BASE/QUOTE of the pair
\* again gives the same pair; "EUR-USD" and "eur/usd" both give (EUR, USD).
C12_Normalises ==
    (u_pc = "done" /\ u_out.exc = "") =>
        \A i \in 1..Len(u_raws) :
            LET raw  == u_raws[i]
                pair == u_out.val[i]
            IN  /\ \A v \in Variants(raw) : parse_pairs(<<v>>) = Ok(<<pair>>)
                /\ \A j \in 1..Len(pair[1]) : pair[1][j] \notin Separators
                /\ PairKey(pair) = [j \in 1..Len(Strip(raw)) |-> Fold(Strip(raw)[j])]
                /\ parse_pairs(<<PairKey(pair)>>) = Ok(<<pair>>)
                /\ raw \in {RAW_EUR_DASH_USD, RAW_eur_usd} => pair = <<EUR, USD>>

\* "EUR-USD" and "eur/usd" parsed in one list to the same pair twice
C12_Witness ==
    /\ u_pc = "done"
    /\ u_raws = <<RAW_EUR_DASH_USD, RAW_eur_usd>>
    /\ u_out = Ok(<<<<EUR, USD>>, <<EUR, USD>>>>)

\* raw holds no separator, or nothing but blanks before its first separator
\* or after it
Malformed(raw) ==
    LET t == Strip(raw)
    IN  \/ \A j \in 1..Len(t) : t[j] \notin Separators
        \/ t[1] \in Separators
        \/ t[Len(t)] \in Separators /\ \A j \in 1..(Len(t) - 1) : t[j] \notin Separators

\* C13: parse_pairs raises exactly when some raw string is malformed, and
\* then raises an invalid-pair error for the first such string; every pair
\* it returns, one per raw string, has a non-empty base and a non-empty
\* quote without a lower-case letter.
C13_FailsExactlyWhen ==
    u_pc = "done" =>
        /\ u_out.exc # "" <=> \E i \in 1..Len(u_raws) : Malformed(u_raws[i])
        /\ u_out.exc # "" =>
              \E i \in 1..Len(u_raws) :
                  /\ Malformed(u_raws[i])
                  /\ \A j \in 1..(i - 1) : ~Malformed(u_raws[j])
                  /\ u_out.exc = "ForexScannerError"
                  /\ u_out.msg \in {MSG_INVALID_FORMAT, MSG_INVALID_SIDES}
                  /\ u_out.text = u_raws[i]
        /\ u_out.exc = "" =>
              /\ Len(u_out.val) = Len(u_raws)
              /\ \A i \in 1..Len(u_raws) : \A side \in 1..2 :
                    /\ u_out.val[i][side] # <<>>
                    /\ \A j \in 1..Len(u_out.val[i][side]) :
                          \A n \in 1..Len(LowerLetters) :
                              u_out.val[i][side][j] # LowerLetters[n]

\* a well-formed string followed by one with no quote: the error names the second
C13_Witness ==
    /\ u_pc = "done"
    /\ u_raws = <<RAW_eur_usd, RAW_NO_QUOTE>>
    /\ u_out = ForexScannerError(MSG_INVALID_SIDES, <<>>, "", "", RAW_NO_QUOTE)

(***************************************************************************)
(* Properties of main                                                      *)
(***************************************************************************)

\* the retry budget and the wait that the arguments of main stand for
EffectiveRetry == IF args_retry < 0 THEN 0 ELSE args_retry
EffectiveDelay ==
    IF args_retry_delay < MIN_RETRY_DELAY THEN MIN_RETRY_DELAY ELSE args_retry_delay

\* pairs[i] has been dealt with, or is being dealt with and past its first call
Attempted(i) == i < idx \/ (i = idx /\ pc # "while")

\* C14: once main has called run_scanner, whatever --retry and --retry-delay
\* were given, the budget is max(0, args.retry): a pair is called at most
\* that many times plus one, and at least once when it is dealt with (every
\* pair, when the call returns); every wait is max(minimum, args.retry_delay),
\* a strictly positive time.
C14_ClampedRetry ==
    mpc \notin {"parse_pairs", "call", "load_demo_data"} /\ pc # "main" =>
        /\ retry = EffectiveRetry
        /\ retry_delay = EffectiveDelay
        /\ \A i \in 1..Len(pairs) :
              /\ Len(calls[i]) <= EffectiveRetry + 1
              /\ Attempted(i) => Len(calls[i]) >= 1
              /\ pc = "returned" => Len(calls[i]) >= 1
              /\ \A n \in 1..Len(sleeps[i]) :
                    /\ sleeps[i][n] = EffectiveDelay
                    /\ sleeps[i][n] >= MIN_RETRY_DELAY
                    /\ sleeps[i][n] > 0

\* --retry -1 and --retry-delay -1.0: two pairs, the first failed once and
\* ended the call after one attempt, with the budget 0 and the minimum wait
C14_Witness ==
    /\ args_retry < 0
    /\ args_retry_delay < 0
    /\ retry = 0
    /\ retry_delay = MIN_RETRY_DELAY
    /\ Len(pairs) = 2
    /\ calls[1] = <<"ForexScannerError">>
    /\ pc = "raised"

JPY == <<"J", "P", "Y">>

\* the records of the demo table for EUR/USD and USD/JPY
DemoRecord(pair) ==
    IF pair = <<EUR, USD>>
    THEN ExchangeRate(EUR, USD, Float("fin", FALSE, 10865, 4), DEMO_LAST_REFRESHED,
                      Float("fin", FALSE, 10863, 4), Float("fin", FALSE, 10867, 4))
    ELSE ExchangeRate(USD, JPY, Float("fin", FALSE, 15482, 2), DEMO_LAST_REFRESHED,
                      Float("fin", FALSE, 15478, 2), Float("fin", FALSE, 15486, 2))

InDemoTable(pair) == pair \in {<<EUR, USD>>, <<USD, JPY>>}

\* C15: once a demo run has called load_demo_data, either every pair is in
\* the table and rates holds the table's record of each pair, in input order,
\* with no error, or some pair is absent and the error is the demo-unavailable
\* error for the first absent pair, with no record at all; run_scanner has
\* not been entered: no call, no wait, and the credential has not been read.
C15_DemoAllOrNothing ==
    (args_demo /\ lookups > 0) =>
        /\ lookups = 1
        /\ IF \A i \in 1..Len(pairs) : InDemoTable(pairs[i])
           THEN /\ error = Ok(NoRate)
                /\ rates = [i \in 1..Len(pairs) |-> DemoRecord(pairs[i])]
           ELSE /\ rates = <<>>
                /\ stdout = <<>>
                /\ \E i \in 1..Len(pairs) :
                      /\ ~InDemoTable(pairs[i])
                      /\ \A j \in 1..(i - 1) : InDemoTable(pairs[j])
                      /\ error = ForexScannerError(MSG_DEMO_UNAVAILABLE, pairs[i], "", "", <<>>)
        /\ pc = "main"
        /\ api_key = NoneStr
        /\ \A i \in 1..Len(pairs) : calls[i] = <<>> /\ sleeps[i] = <<>>

\* a demo run for EUR/USD, USD/JPY and XAU/USD that ended with the error for
\* XAU/USD and no record
C15_Witness ==
    /\ args_demo
    /\ pairs = <<<<EUR, USD>>, <<USD, JPY>>, <<XAU, USD>>>>
    /\ mpc = "exit"
    /\ error = ForexScannerError(MSG_DEMO_UNAVAILABLE, <<XAU, USD>>, "", "", <<>>)
    /\ rates = <<>>

\* the run has produced every record it was asked for
RunSucceeded ==
    IF args_demo THEN lookups = 1 /\ Len(rates) = Len(pairs)
    ELSE pc = "returned" /\ rates = results /\ Len(rates) = Len(pairs)

\* C16: main returns 0 exactly when the run succeeded, having printed the
\* result once and nothing on standard error; when a ForexScannerError
\* reached it (from parse_pairs, run_scanner or load_demo_data) it returns 1
\* having written that one error to standard error, with nothing printed
\* and no snapshot saved.  No state holds both an error and a result output.
C16_ExitCode ==
    /\ exit_code \in {-1, 0, 1}
    /\ exit_code # -1 <=> mpc = "exit"
    /\ exit_code = 0 =>
          /\ RunSucceeded
          /\ error = Ok(NoRate)
          /\ Len(stdout) = 1
          /\ stderr = <<>>
    /\ exit_code = 1 =>
          /\ error.exc = "ForexScannerError"
          /\ stderr = <<error>>
          /\ stdout = <<>>
          /\ ~saved
    /\ error.exc = "ForexScannerError" =>
          /\ mpc \in {"except", "exit"}
          /\ stdout = <<>>
          /\ ~saved
          /\ mpc = "exit" => exit_code = 1
    /\ (pc = "raised" /\ raised[Len(raised)].exc = "ForexScannerError"
          /\ mpc \notin {"run_scanner", "except"}) => exit_code = 1
    /\ (mpc = "exit" /\ RunSucceeded) => exit_code = 0

\* a live run whose first pair failed three times on the network with the
\* budget 2: exit code 1 and the one error line
C16_Witness ==
    /\ mpc = "exit"
    /\ exit_code = 1
    /\ retry = 2
    /\ Len(pairs) = 2
    /\ Len(calls[1]) = 3
    /\ error.msg = MSG_NETWORK
    /\ stderr = <<error>>
    /\ stdout = <<>>

RECURSIVE Total(_)
\* the sum of the lengths of the sequences of seqs
Total(seqs) ==
    IF seqs = <<>> THEN 0
    ELSE Total(SubSeq(seqs, 1, Len(seqs) - 1)) + Len(seqs[Len(seqs)])

\* C17: for N pairs and the budget R, at no time have more than N x (R+1)
\* calls of fetch_exchange_rate or more than N x R waits been made; as every
\* pass of the while loop makes a call and every retry a wait, and the for
\* loop takes each pair once, run_scanner cannot run for ever.  Until it has
\* ended it has a step to take, and it ends with the full list returned or
\* with an exception propagated.
C17_Terminates ==
    /\ Total(calls) <= Len(pairs) * (retry + 1)
    /\ Total(sleeps) <= Len(pairs) * retry
    /\ idx <= Len(pairs)
    /\ pc \in {"run_scanner", "for", "while", "sleep"} =>
          ENABLED (CheckApiKey \/ ForNext \/ Attempt \/ Sleep)
    /\ pc = "returned" => returned = <<results>> /\ Len(results) = Len(pairs)
    /\ pc = "raised" => Len(raised) = 1 /\ returned = <<>>

\* three pairs and the budget 2, every pair failed twice and then succeeded:
\* 3 x 3 calls and 3 x 2 waits, and the list returned
C17_Witness ==
    /\ Len(pairs) = 3
    /\ retry = 2
    /\ Total(calls) = Len(pairs) * (retry + 1)
    /\ Total(sleeps) = Len(pairs) * retry
    /\ pc = "returned"

\* C18: while pairs[idx] is being tried, attempt is the number of domain
\* errors of the calls made for that pair alone, whatever the earlier pairs
\* did; so a pair that succeeds has failed at most retry times, and a pair
\* ends the call by a domain error only at its own failure retry + 1.
C18_PerPairBudget ==
    /\ pc \in {"while", "sleep"} => attempt = Failures(idx)
    /\ \A i \in 1..Len(pairs) :
          /\ Succeeded(i) => Failures(i) <= retry
          /\ (pc = "raised" /\ i = idx /\ AllFailed(i)) =>
                attempt = Failures(i) /\ Failures(i) = retry + 1

\* the budget 2 and two pairs, each of which failed twice and then succeeded
C18_Witness ==
    /\ retry = 2
    /\ Len(pairs) = 2
    /\ Failures(1) = 2
    /\ Succeeded(1)
    /\ Failures(2) = 2
    /\ Succeeded(2)

\* C19: when the pair being tried has used up its budget, the one exception
\* run_scanner propagates is the outcome of the latest call, whatever the
\* earlier calls for the pair failed with, and that is the error main gets
\* and prints.
C19_LastErrorPropagates ==
    (pc = "raised" /\ idx >= 1 /\ Exhausted(idx)) =>
        /\ last_out.exc = "ForexScannerError"
        /\ raised = <<last_out>>
        /\ mpc \in {"except", "exit"} => error = last_out
        /\ mpc = "exit" => stderr = <<last_out>>

\* the budget 2: the pair first hit the rate limit and last failed on the
\* network; main printed the network error
C19_Witness ==
    /\ pc = "raised"
    /\ retry = 2
    /\ idx >= 1
    /\ Failures(idx) = 3
    /\ first_error.msg = MSG_API_LIMIT
    /\ last_out.msg = MSG_NETWORK
    /\ mpc = "exit"
    /\ stderr = <<last_out>>

\* C20: if any raw string of args.pairs is malformed, whatever its place,
\* main never gets a list of pairs: no call of fetch_exchange_rate, no wait
\* and no demo lookup is ever made, run_scanner is not entered, and once
\* parse_pairs has run the error is the invalid-pair error for the first
\* malformed string; main then returns 1 and never prints a result.
C20_ValidatedFirst ==
    (\E i \in 1..Len(args_pairs) : Malformed(args_pairs[i])) =>
        /\ pairs = <<>>
        /\ calls = <<>>
        /\ sleeps = <<>>
        /\ lookups = 0
        /\ pc = "main"
        /\ rates = <<>>
        /\ stdout = <<>>
        /\ mpc \in {"parse_pairs", "except", "exit"}
        /\ mpc # "parse_pairs" =>
              \E i \in 1..Len(args_pairs) :
                  /\ Malformed(args_pairs[i])
                  /\ \A j \in 1..(i - 1) : ~Malformed(args_pairs[j])
                  /\ error = ForexScannerError(MSG_INVALID_FORMAT, <<>>, "", "", args_pairs[i])
        /\ mpc = "exit" => exit_code = 1 /\ stderr = <<error>>

\* a live run for EUR/USD, xau-usd and EURUSD: the last string is malformed
\* and main returned 1 with the error for it
C20_Witness ==
    /\ ~args_demo
    /\ args_pairs = <<RAW_EUR_USD, RAW_XAU_USD, RAW_EURUSD>>
    /\ mpc = "exit"
    /\ exit_code = 1
    /\ error = ForexScannerError(MSG_INVALID_FORMAT, <<>>, "", "", RAW_EURUSD)
    /\ calls = <<>>

====
